---- MODULE Spec2Model ----
(***************************************************************************)
(* Verification model of the truck-parking reconciliation-and-query        *)
(* engine: the /api/facilities viewport query route, the /api/ndw          *)
(* live-status route and the /api/eu-parking route.                        *)
(*                                                                         *)
(* Conventions.  A JavaScript string whose characters matter (names,       *)
(* search text, the `types` parameter) is a sequence of symbols.  An       *)
(* optional value (undefined / null / absent property) is a set with at    *)
(* most one element: Null is the absent value, Some(x) a present one.      *)
(* Coordinates are integers (grid units).                                  *)
(***************************************************************************)
EXTENDS Integers, Sequences, FiniteSets, TLC

VARIABLES
    snapshot,     \* public/truck_parking_enriched.json: [readable, features]
    cachedData,   \* facilities route.ts:6, Null or Some(<<feature, ...>>)
    request,      \* the query (URL search parameters) GET /api/facilities serves
    response,     \* the last response of GET /api/facilities
    tableDoc,     \* upstream Truckparking_Parking_Table.xml, parsed
    statusDoc,    \* upstream Truckparking_Parking_Status.xml, parsed
    ndwResponse,  \* the last response of GET /api/ndw
    euUpstream,   \* per configured EU source: what its URL currently serves
    euResponse,   \* the last response of GET /api/eu-parking
    calls,        \* the invocations of GET /api/facilities: [pc, request, data]
    firstLoad,    \* history: the value first assigned to cachedData
    csvText,      \* the body the Zenodo URL serves: a sequence of lines
    zenodoResponse, \* the last response of GET /api/zenodo
    map,          \* the React state of the map component
    timeoutId,    \* whether the debounce setTimeout is waiting to fire
    pending,      \* per source: the client's fetches that will still settle
    missed,       \* history: consecutive failed /api/ndw fetches since a success
    awaitingRetry, \* history: per source, a fetch failed and none was issued since
    merged,       \* the merged attributes of the facility being scored
    confidence_score, \* Null, or the score of merged, in hundredths
    inFlight,     \* the bounds of the /api/facilities requests awaiting a response
    latest,       \* history: the most recently issued /api/facilities request
    stats,        \* the statistics the map shows
    geojsonData,  \* TruckParkingMap: Null, or its [data, stats] once loaded
    enrichedData  \* TruckParkingMapEnhanced: Null, or its [data, stats] once loaded

routeVars == <<snapshot, cachedData, request, response,
               tableDoc, statusDoc, ndwResponse, euUpstream, euResponse>>

callVars == <<calls, firstLoad>>

zenodoVars == <<csvText, zenodoResponse>>

clientVars == <<map, timeoutId, pending, missed, awaitingRetry>>

scorerVars == <<merged, confidence_score>>

raceVars == <<inFlight, latest, stats>>

componentVars == <<geojsonData, enrichedData>>

vars == <<routeVars, callVars, zenodoVars, clientVars, scorerVars, raceVars,
          componentVars>>

----------------------------------------------------------------------------
(* Optional values and generic sequence helpers                            *)

Null == {}

Some(x) == {x}

Get(o) == CHOOSE x \in o : TRUE

Option(S) == {Null} \cup {Some(x) : x \in S}

SeqsUpTo(S, n) == UNION {[1..k -> S] : k \in 0..n}

\* Array.prototype.map is written [i \in DOMAIN s |-> ...], and
\* Array.prototype.filter is SelectSeq.

Min(a, b) == IF a < b THEN a ELSE b

Max(a, b) == IF a > b THEN a ELSE b

\* Array.prototype.slice(start, end): negative indices count from the end,
\* both are clamped to [0, length]
slice(s, start, end) ==
    LET len  == Len(s)
        from == IF start < 0 THEN Max(len + start, 0) ELSE Min(start, len)
        to   == IF end < 0 THEN Max(len + end, 0) ELSE Min(end, len)
    IN  IF from < to THEN SubSeq(s, from + 1, to) ELSE <<>>

\* String.prototype.toLowerCase on one symbol
LowerChar(c) ==
    CASE c = "A" -> "a"
      [] c = "B" -> "b"
      [] c = "Lat" -> "lat"
      [] OTHER   -> c

toLowerCase(s) == [i \in DOMAIN s |-> LowerChar(s[i])]

\* String.prototype.includes
includes(s, sub) ==
    \E i \in 0..(Len(s) - Len(sub)) : SubSeq(s, i + 1, i + Len(sub)) = sub

\* String.prototype.split(sep): the pieces between the separators; a string
\* without separator, the empty one included, is one piece
RECURSIVE split(_, _)
split(s, sep) ==
    IF \A i \in DOMAIN s : s[i] # sep
    THEN <<s>>
    ELSE LET k == CHOOSE i \in DOMAIN s :
                      s[i] = sep /\ \A j \in 1..(i - 1) : s[j] # sep
         IN  <<SubSeq(s, 1, k - 1)>> \o split(SubSeq(s, k + 1, Len(s)), sep)

\* Array.prototype.join(sep) of an array of one-symbol words
RECURSIVE join(_, _)
join(words, sep) ==
    IF Len(words) = 0 THEN <<>>
    ELSE IF Len(words) = 1 THEN <<words[1]>>
    ELSE <<words[1], sep>> \o join(Tail(words), sep)

----------------------------------------------------------------------------
(* GET /api/facilities  (app/api/facilities/route.ts, first module)        *)

FacilityTypes == <<"truck_parking", "service_area", "rest_area">>

DefaultLimit == 1000

DefaultOffset == 0

\* a derivation that tests is_service_area before is_truck_parking
facility_typeServiceAreaFirst(classification) ==
    IF classification.is_service_area THEN "service_area"
    ELSE IF classification.is_truck_parking THEN "truck_parking"
    ELSE "rest_area"

\* rawData.map callback of loadAndTransformData; only called on a feature
\* that has a classification object
facility_type(classification) ==
    IF classification.is_truck_parking THEN "truck_parking"
    ELSE IF classification.is_service_area THEN "service_area"
    ELSE "rest_area"

Transform(feature) ==
    [name           |-> feature.name,
     latitude       |-> feature.latitude,
     longitude      |-> feature.longitude,
     classification |-> feature.classification,
     location       |-> feature.location,
     facility_type  |-> facility_type(Get(feature.classification))]

\* readFile / JSON.parse reject, or feature.classification.is_truck_parking
\* dereferences an absent classification inside rawData.map
LoadThrows(snap) ==
    \/ ~snap.readable
    \/ \E i \in DOMAIN snap.features : snap.features[i].classification = Null

\* a store published before rawData.map has run to its end
loadAndTransformDataPartial(cache, snap) ==
    IF cache # Null
    THEN [threw |-> FALSE, cachedData |-> cache, data |-> Get(cache)]
    ELSE IF LoadThrows(snap)
    THEN [threw |-> TRUE, cachedData |-> cache, data |-> <<>>]
    ELSE LET transformed == [i \in DOMAIN snap.features |-> Transform(snap.features[i])]
             partial     == SubSeq(transformed, 1, Len(transformed) - 1)
         IN  [threw |-> FALSE, cachedData |-> Some(partial), data |-> partial]

\* [threw, cachedData, data]: cachedData is assigned only when the whole map
\* has run
loadAndTransformData(cache, snap) ==
    IF cache # Null
    THEN [threw |-> FALSE, cachedData |-> cache, data |-> Get(cache)]
    ELSE IF LoadThrows(snap)
    THEN [threw |-> TRUE, cachedData |-> cache, data |-> <<>>]
    ELSE LET transformed == [i \in DOMAIN snap.features |-> Transform(snap.features[i])]
         IN  [threw |-> FALSE, cachedData |-> Some(transformed),
              data |-> transformed]

\* searchParams.get('types')?.split(',') || [defaults]: an array is truthy,
\* so the default applies only when the parameter is absent
RequestedTypes(req) ==
    IF req.types = Null
    THEN [i \in DOMAIN FacilityTypes |-> <<FacilityTypes[i]>>]
    ELSE split(Get(req.types), ",")

\* a search term taken as typed
SearchTermAsTyped(req) ==
    IF req.search = Null THEN <<>> ELSE Get(req.search)

\* searchParams.get('search')?.toLowerCase() || ''
SearchTerm(req) ==
    IF req.search = Null THEN <<>> ELSE toLowerCase(Get(req.search))

\* parseInt(searchParams.get('limit') || '1000', 10)
Limit(req) == IF req.limit = Null THEN DefaultLimit ELSE Get(req.limit)

\* parseInt(searchParams.get('offset') || '0', 10)
Offset(req) == IF req.offset = Null THEN DefaultOffset ELSE Get(req.offset)

\* a viewport filter whose upper edges are exclusive
InViewportExclusive(feature, b) ==
    /\ feature.latitude >= b[1] /\ feature.latitude < b[3]
    /\ feature.longitude >= b[2] /\ feature.longitude < b[4]

\* the viewport filter callback
InViewport(feature, b) ==
    /\ feature.latitude >= b[1] /\ feature.latitude <= b[3]
    /\ feature.longitude >= b[2] /\ feature.longitude <= b[4]

FilterByBounds(data, req) ==
    IF req.bounds = Null THEN data
    ELSE SelectSeq(data, LAMBDA f : InViewport(f, Get(req.bounds)))

\* types.includes(feature.facility_type || 'rest_area')
FilterByType(data, types) ==
    SelectSeq(data, LAMBDA f : \E i \in DOMAIN types : types[i] = <<f.facility_type>>)

\* optional chaining: an absent location or field yields undefined (falsy)
FieldIncludes(feature, field, search) ==
    /\ feature.location # Null
    /\ Get(feature.location)[field] # Null
    /\ includes(toLowerCase(Get(Get(feature.location)[field])), search)

\* the search filter callback; feature.name is dereferenced unguarded
SearchMatches(feature, search) ==
    \/ includes(toLowerCase(Get(feature.name)), search)
    \/ FieldIncludes(feature, "municipality", search)
    \/ FieldIncludes(feature, "province", search)
    \/ FieldIncludes(feature, "highway", search)

\* feature.name.toLowerCase() on a feature without name
SearchThrows(data, search) ==
    search # <<>> /\ \E i \in DOMAIN data : data[i].name = Null

FilterBySearch(data, search) ==
    IF search = <<>> THEN data
    ELSE SelectSeq(data, LAMBDA f : SearchMatches(f, search))

CountType(data, t) == Len(SelectSeq(data, LAMBDA f : f.facility_type = t))

ErrorResponse == [status |-> 500, error |-> "Failed to load facilities"]

\* a total taken after pagination
TotalOfPage(data, paginatedData) == Len(paginatedData)

\* const total = data.length, taken before the slice
Total(data, paginatedData) == Len(data)

\* a slice that takes `limit` as its end index
PaginateToLimit(data, offset, limit) == slice(data, offset, limit)

\* data.slice(offset, offset + limit)
Paginate(data, offset, limit) == slice(data, offset, offset + limit)

\* the body of the try block after the load
QueryResponse(data, req) ==
    LET byBounds == FilterByBounds(data, req)
        byType   == FilterByType(byBounds, RequestedTypes(req))
        search   == SearchTerm(req)
    IN  IF SearchThrows(byType, search) THEN ErrorResponse
        ELSE LET filtered      == FilterBySearch(byType, search)
                 paginatedData == Paginate(filtered, Offset(req), Limit(req))
             IN  [status     |-> 200,
                  facilities |-> paginatedData,
                  stats      |-> [total         |-> Total(filtered, paginatedData),
                                  truck_parking |-> CountType(filtered, "truck_parking"),
                                  service_area  |-> CountType(filtered, "service_area"),
                                  rest_area     |-> CountType(filtered, "rest_area")],
                  total      |-> Total(filtered, paginatedData),
                  offset     |-> Offset(req),
                  limit      |-> Limit(req)]

GET_facilities ==
    LET loaded == loadAndTransformData(cachedData, snapshot)
    IN  /\ cachedData' = loaded.cachedData
        /\ response' = IF loaded.threw THEN ErrorResponse
                       ELSE QueryResponse(loaded.data, request)
        /\ UNCHANGED <<snapshot, request, tableDoc, statusDoc, ndwResponse,
                       euUpstream, euResponse, callVars, zenodoVars,
                       clientVars, scorerVars, raceVars, componentVars>>

----------------------------------------------------------------------------
(* GET /api/ndw  (app/api/facilities/route.ts, second module)              *)
(*                                                                         *)
(* A document is what its URL serves now: [fetch, records].  fetch is      *)
(* "ok", "notOk" (a response whose ok flag is false) or "rejected" (fetch  *)
(* or text() rejects); records is the parsed record list of an "ok"        *)
(* document.  Timestamps (lastUpdated, the default of a status timestamp)  *)
(* are left out of the responses.                                          *)

\* the JavaScript truthiness test of an optional string
Falsy(attr) == attr = Null \/ Get(attr) = ""

\* x || fallback
OrElse(attr, fallback) == IF Falsy(attr) THEN fallback ELSE Get(attr)

\* extractNumber(node) || 0
NumberOrZero(node) == IF node = Null THEN 0 ELSE Get(node)

\* x > 0 ? x : undefined
PositiveOrUndefined(x) == IF x > 0 THEN Some(x) ELSE Null

NoSpaces ==
    [totalSpaces |-> 0, lorrySpaces |-> 0, refrigeratedSpaces |-> 0,
     heavyHaulSpaces |-> 0]

\* a callback that counts heavyHaul spaces as lorry spaces
countGroupHeavyHaulAsLorry(sums, group) ==
    LET spaces      == NumberOrZero(group.parkingNumberOfSpaces)
        vehicleType == group.vehicleType
        total       == [sums EXCEPT !.totalSpaces = @ + spaces]
    IN  IF vehicleType \in {Some("lorry"), Some("heavyHaul")}
        THEN [total EXCEPT !.lorrySpaces = @ + spaces]
        ELSE IF vehicleType = Some("refrigeratedGoods")
        THEN [total EXCEPT !.refrigeratedSpaces = @ + spaces]
        ELSE total

\* the groupsOfSpaces.forEach callback: every group counts in totalSpaces,
\* the three recognised vehicle types in their own sum
countGroup(sums, group) ==
    LET spaces      == NumberOrZero(group.parkingNumberOfSpaces)
        vehicleType == group.vehicleType
        total       == [sums EXCEPT !.totalSpaces = @ + spaces]
    IN  IF vehicleType = Some("lorry")
        THEN [total EXCEPT !.lorrySpaces = @ + spaces]
        ELSE IF vehicleType = Some("refrigeratedGoods")
        THEN [total EXCEPT !.refrigeratedSpaces = @ + spaces]
        ELSE IF vehicleType = Some("heavyHaul")
        THEN [total EXCEPT !.heavyHaulSpaces = @ + spaces]
        ELSE total

RECURSIVE forEachGroup(_, _)
forEachGroup(groupsOfSpaces, sums) ==
    IF groupsOfSpaces = <<>> THEN sums
    ELSE forEachGroup(Tail(groupsOfSpaces), countGroup(sums, Head(groupsOfSpaces)))

\* the capacity property of the returned facility
Capacity(groupsOfSpaces) ==
    LET sums == forEachGroup(groupsOfSpaces, NoSpaces)
    IN  [totalSpaces        |-> sums.totalSpaces,
         lorrySpaces        |-> PositiveOrUndefined(sums.lorrySpaces),
         refrigeratedSpaces |-> PositiveOrUndefined(sums.refrigeratedSpaces),
         heavyHaulSpaces    |-> PositiveOrUndefined(sums.heavyHaulSpaces)]

\* the parkingRecords.map callback of parseParkingTable
ParkingFacility(record) ==
    LET id == OrElse(record.id, "")
    IN  [id       |-> id,
         name     |-> OrElse(record.name, id),
         location |-> [latitude  |-> NumberOrZero(record.latitude),
                       longitude |-> NumberOrZero(record.longitude)],
         capacity |-> Capacity(record.groupOfParkingSpaces)]

parseParkingTable(records) ==
    [i \in DOMAIN records |-> ParkingFacility(records[i])]

\* the value statusMap.set stores for a status record
ParkingStatus(statusRecord) ==
    [id             |-> Get(statusRecord.id),
     vacantSpaces   |-> NumberOrZero(statusRecord.vacantSpaces),
     occupiedSpaces |-> NumberOrZero(statusRecord.occupiedSpaces),
     occupancy      |-> NumberOrZero(statusRecord.occupancy),
     status         |-> OrElse(statusRecord.status, "unknown")]

EmptyMap == [k \in {} |-> Null]

\* a map that keeps the first value set for a key
MapSetOnce(m, key, value) ==
    [k \in DOMAIN m \cup {key} |-> IF k \in DOMAIN m THEN m[k] ELSE value]

\* Map.prototype.set
MapSet(m, key, value) ==
    [k \in DOMAIN m \cup {key} |-> IF k = key THEN value ELSE m[k]]

\* Map.prototype.get: undefined for a key that was never set
MapGet(m, key) == IF key \in DOMAIN m THEN Some(m[key]) ELSE Null

\* statusRecords.forEach of parseParkingStatus: records without id are
\* skipped, a later record of the same id replaces the earlier one
RECURSIVE parseParkingStatus(_)
parseParkingStatus(statusRecords) ==
    IF statusRecords = <<>> THEN EmptyMap
    ELSE LET n         == Len(statusRecords)
             statusMap == parseParkingStatus(SubSeq(statusRecords, 1, n - 1))
             last      == statusRecords[n]
         IN  IF Falsy(last.id) THEN statusMap
             ELSE MapSet(statusMap, Get(last.id), ParkingStatus(last))

Enrich(facility, statusMap) ==
    [id         |-> facility.id,
     name       |-> facility.name,
     location   |-> facility.location,
     capacity   |-> facility.capacity,
     liveStatus |-> MapGet(statusMap, facility.id)]

\* an inner join: facilities without live status are dropped
EnrichMatchedOnly(facilities, statusMap) ==
    LET matched == SelectSeq(facilities, LAMBDA f : f.id \in DOMAIN statusMap)
    IN  [i \in DOMAIN matched |-> Enrich(matched[i], statusMap)]

\* facilities.map((facility) => ({...facility, liveStatus: statusMap.get(facility.id)}))
EnrichedFacilities(facilities, statusMap) ==
    [i \in DOMAIN facilities |-> Enrich(facilities[i], statusMap)]

NdwErrorResponse ==
    [status |-> 500, error |-> "Failed to fetch truck parking data"]

\* Promise.all rejects when either fetch rejects; a response that is not ok
\* makes the handler throw
NdwFetchFails(table, status) ==
    \/ table.fetch # "ok"
    \/ status.fetch # "ok"

GET_ndw ==
    /\ ndwResponse' =
           IF NdwFetchFails(tableDoc, statusDoc) THEN NdwErrorResponse
           ELSE LET facilities == parseParkingTable(tableDoc.records)
                    statusMap  == parseParkingStatus(statusDoc.records)
                    enrichedFacilities == EnrichedFacilities(facilities, statusMap)
                IN  [status          |-> 200,
                     facilities      |-> enrichedFacilities,
                     totalFacilities |-> Len(enrichedFacilities)]
    /\ UNCHANGED <<snapshot, cachedData, request, response, tableDoc,
                   statusDoc, euUpstream, euResponse, callVars, zenodoVars,
                   clientVars, scorerVars, raceVars, componentVars>>

----------------------------------------------------------------------------
(* GET /api/eu-parking  (app/api/eu-parking/route.ts)                      *)
(*                                                                         *)
(* euUpstream[k] is what the URL of EU_DATA_SOURCES[k] serves: [fetch,     *)
(* records], with fetch "ok", "notOk", "rejected" (fetch or text()         *)
(* rejects) or "malformed" (the parse or the record mapping throws).       *)

EU_DATA_SOURCES ==
    <<[country |-> "AT", name |-> "Austria"],
      [country |-> "DE", name |-> "Germany (Schleswig-Holstein)"]>>

\* the parkingRecords.map callback; the id is `${source.country}-${id}`
EUFacility(source, record) ==
    LET id == OrElse(record.id, "")
    IN  [id       |-> <<source.country, "-", id>>,
         country  |-> source.country,
         name     |-> OrElse(record.name, id),
         location |-> [latitude  |-> NumberOrZero(record.latitude),
                       longitude |-> NumberOrZero(record.longitude)],
         source   |-> source.name]

\* a fetchAndParseEUData without try/catch: a failure propagates
fetchAndParseEUDataUnguarded(source, upstream) ==
    IF upstream.fetch # "ok"
    THEN [threw |-> TRUE, facilities |-> <<>>]
    ELSE [threw |-> FALSE,
          facilities |-> [i \in DOMAIN upstream.records |->
                             EUFacility(source, upstream.records[i])]]

\* the whole body runs inside try: a response that is not ok returns [],
\* anything thrown is caught and returns []
fetchAndParseEUData(source, upstream) ==
    IF upstream.fetch # "ok"
    THEN [threw |-> FALSE, facilities |-> <<>>]
    ELSE [threw |-> FALSE,
          facilities |-> [i \in DOMAIN upstream.records |->
                             EUFacility(source, upstream.records[i])]]

\* Array.prototype.flat of an array of arrays
RECURSIVE flat(_)
flat(arrays) ==
    IF arrays = <<>> THEN <<>> ELSE Head(arrays) \o flat(Tail(arrays))

EuErrorResponse == [status |-> 500, error |-> "Failed to fetch EU parking data"]

GET_eu ==
    /\ euResponse' =
           IF Len(EU_DATA_SOURCES) = 0
           THEN [status |-> 200, facilities |-> <<>>, totalFacilities |-> 0,
                 sources |-> <<>>]
           ELSE LET results == [k \in DOMAIN EU_DATA_SOURCES |->
                                   fetchAndParseEUData(EU_DATA_SOURCES[k], euUpstream[k])]
                IN  IF \E k \in DOMAIN results : results[k].threw
                    THEN EuErrorResponse
                    ELSE LET allFacilities ==
                                 flat([k \in DOMAIN results |-> results[k].facilities])
                         IN  [status          |-> 200,
                              facilities      |-> allFacilities,
                              totalFacilities |-> Len(allFacilities),
                              sources         |-> [k \in DOMAIN EU_DATA_SOURCES |->
                                                      [country |-> EU_DATA_SOURCES[k].country,
                                                       name    |-> EU_DATA_SOURCES[k].name]]]
    /\ UNCHANGED <<snapshot, cachedData, request, response, tableDoc,
                   statusDoc, ndwResponse, euUpstream, callVars, zenodoVars,
                   clientVars, scorerVars, raceVars, componentVars>>

----------------------------------------------------------------------------
(* Inputs of GET /api/facilities                                           *)

MaxCoord == 1

MaxFeatures == 2

Coords == 0..MaxCoord

Classification(tp, sa, ra) ==
    [is_truck_parking |-> tp, is_service_area |-> sa, is_rest_area |-> ra]

Feature(name, lat, lng, cls, loc) ==
    [name |-> name, latitude |-> lat, longitude |-> lng,
     classification |-> cls, location |-> loc]

Request(bounds, types, search, limit, offset) ==
    [bounds |-> bounds, types |-> types, search |-> search,
     limit |-> limit, offset |-> offset]

NoResponse == [status |-> 0]

\* the other routes at rest
FacilitiesIdle ==
    /\ snapshot = [readable |-> TRUE, features |-> <<>>]
    /\ cachedData = Null
    /\ request = [bounds |-> Null, types |-> Null, search |-> Null,
                  limit |-> Null, offset |-> Null]
    /\ response = NoResponse

NdwIdle ==
    /\ tableDoc = [fetch |-> "ok", records |-> <<>>]
    /\ statusDoc = [fetch |-> "ok", records |-> <<>>]
    /\ ndwResponse = NoResponse

EuIdle ==
    /\ euUpstream = [k \in DOMAIN EU_DATA_SOURCES |-> [fetch |-> "ok", records |-> <<>>]]
    /\ euResponse = NoResponse

\* no invocation of GET /api/facilities is under way
CallsIdle ==
    /\ calls = <<>>
    /\ firstLoad = Null

ZenodoIdle ==
    /\ csvText = [fetch |-> "ok", text |-> <<>>]
    /\ zenodoResponse = NoResponse

\* the sources the map component fetches
Sources == {"osm", "ndw", "zenodo"}

\* the useState initial values of the map component
InitialState ==
    [data               |-> Null,
     viewport           |-> Null,
     isLoadingData      |-> FALSE,
     ndwData            |-> Null,
     showNdwLayer       |-> TRUE,
     isRefreshingNdw    |-> FALSE,
     zenodoData         |-> Null,
     showZenodoLayer    |-> FALSE,
     isRefreshingZenodo |-> FALSE]

\* the map component is not mounted
ClientIdle ==
    /\ map = InitialState
    /\ timeoutId = FALSE
    /\ pending = [s \in Sources |-> 0]
    /\ missed = 0
    /\ awaitingRetry = [s \in Sources |-> FALSE]

\* a facility about which nothing is known
NoFacility ==
    [name |-> Null, capacity |-> Null, polygon |-> FALSE, amenities |-> {},
     operator |-> Null, hgv |-> FALSE]

ScorerIdle ==
    /\ merged = NoFacility
    /\ confidence_score = Null

RaceIdle ==
    /\ inFlight = <<>>
    /\ latest = Null
    /\ stats = Null

ComponentsIdle ==
    /\ geojsonData = Null
    /\ enrichedData = Null

\* the server starts with an empty cache and a snapshot file on disk
InitFacilities(Snapshots, Requests) ==
    /\ snapshot \in Snapshots
    /\ cachedData = Null
    /\ request \in Requests
    /\ response = NoResponse
    /\ NdwIdle
    /\ EuIdle
    /\ CallsIdle
    /\ ZenodoIdle
    /\ ClientIdle
    /\ ComponentsIdle
    /\ RaceIdle
    /\ ScorerIdle

ReadableSnapshots(Features, n) ==
    {[readable |-> TRUE, features |-> fs] : fs \in SeqsUpTo(Features, n)}

(* Viewport queries: facilities spread over a grid, rectangles over the    *)
(* same grid                                                               *)

ViewportFeatures ==
    {Feature(Some(<<"A">>), lat, lng, Some(Classification(FALSE, FALSE, TRUE)), Null) :
        lat \in Coords, lng \in Coords}
    \cup
    {Feature(Some(<<"A">>), 0, 0, Some(Classification(TRUE, FALSE, FALSE)), Null)}

Rectangles == Coords \X Coords \X Coords \X Coords

ViewportRequests ==
    {Request(b, t, Null, Null, Null) :
        b \in Option(Rectangles),
        t \in {Null, Some(<<"truck_parking">>)}}

InitViewport ==
    InitFacilities(ReadableSnapshots(ViewportFeatures, MaxFeatures),
                   ViewportRequests)

NextFacilities == GET_facilities

SpecViewport == InitViewport /\ [][NextFacilities]_vars

(* Paginated queries: facilities of the three types at two positions, told *)
(* apart by name and type, pages of every size up to MaxLimit              *)

MaxPageFeatures == 3

MaxLimit == 2

MaxOffset == 3

PageFeatures ==
    {Feature(Some(<<"A">>), 0, 0, Some(Classification(TRUE, FALSE, FALSE)), Null),
     Feature(Some(<<"A">>), 0, 0, Some(Classification(FALSE, TRUE, FALSE)), Null),
     Feature(Some(<<"B">>), 1, 0, Some(Classification(FALSE, FALSE, TRUE)), Null),
     Feature(Some(<<"B">>), 1, 0, Some(Classification(TRUE, FALSE, FALSE)), Null)}

PageRequests ==
    {Request(b, t, s, l, o) :
        b \in {Null, Some(<<0, 0, 0, 0>>)},
        t \in {Null, Some(join(<<"truck_parking", "rest_area">>, ","))},
        s \in {Null, Some(<<"b">>)},
        l \in Option(0..MaxLimit),
        o \in Option(-1..MaxOffset)}

InitPage ==
    InitFacilities(ReadableSnapshots(PageFeatures, MaxPageFeatures),
                   PageRequests)

SpecPage == InitPage /\ [][NextFacilities]_vars

(* Text search: facilities with and without name, location and location    *)
(* fields, search texts in both letter cases                               *)

MaxSearchFeatures == 2

MaxSearchLen == 2

SearchFeatures ==
    {Feature(name, 0, 0, Some(Classification(FALSE, FALSE, TRUE)), loc) :
        name \in Option({<<"A", "b">>, <<"B">>}),
        loc \in Option([municipality : Option({<<"b", "A">>}),
                        province     : Option({<<"a">>}),
                        highway      : Option({<<"A", "a">>})])}

SearchRequests ==
    {Request(Null, Null, s, Null, Null) :
        s \in Option(SeqsUpTo({"a", "B"}, MaxSearchLen))}

InitSearch ==
    InitFacilities(ReadableSnapshots(SearchFeatures, MaxSearchFeatures),
                   SearchRequests)

SpecSearch == InitSearch /\ [][NextFacilities]_vars

(* Loading: snapshots that cannot be read, features without                *)
(* classification, every combination of the classification flags, and the  *)
(* `types` parameter as the map client builds it                           *)

MaxLoadFeatures == 2

LoadFeatures ==
    {Feature(Some(<<"A">>), 0, 0, cls, Null) :
        cls \in Option({Classification(tp, sa, ra) :
                            tp \in BOOLEAN, sa \in BOOLEAN, ra \in BOOLEAN})}

\* fetchFacilities of the map client: the enabled filters, joined
activeTypes(filters) == SelectSeq(FacilityTypes, LAMBDA t : filters[t])

ClientTypesParam(filters) == join(activeTypes(filters), ",")

Filters == [{FacilityTypes[k] : k \in DOMAIN FacilityTypes} -> BOOLEAN]

LoadRequests ==
    {Request(Null, t, Null, Null, Null) :
        t \in {Null} \cup {Some(ClientTypesParam(filters)) : filters \in Filters}}

UnreadableSnapshot == [readable |-> FALSE, features |-> <<>>]

InitLoad ==
    InitFacilities(ReadableSnapshots(LoadFeatures, MaxLoadFeatures)
                       \cup {UnreadableSnapshot},
                   LoadRequests)

SpecLoad == InitLoad /\ [][NextFacilities]_vars

----------------------------------------------------------------------------
(* Inputs of GET /api/ndw and GET /api/eu-parking                          *)

MaxParkingRecords == 2

MaxStatusRecords == 2

MaxEuRecords == 2

\* an id attribute: absent, empty, or one of two ids
IdAttrs == Option({"", "P1", "P2"})

ParkingRecords ==
    [id : IdAttrs, name : Option({"Name"}), latitude : {Some(52)}, longitude : {Some(5)},
     groupOfParkingSpaces : {<<>>}]

StatusRecords ==
    {[id |-> id, vacantSpaces |-> o[1], occupiedSpaces |-> o[2],
      occupancy |-> o[3], status |-> o[4]] :
        id \in IdAttrs,
        o \in {<<Null, Null, Null, Null>>,
               <<Some(3), Some(7), Some(70), Some("spacesAvailable")>>}}

Documents(Records, n, Failures) ==
    {[fetch |-> "ok", records |-> rs] : rs \in SeqsUpTo(Records, n)}
    \cup {[fetch |-> f, records |-> <<>>] : f \in Failures}

InitNdw ==
    /\ FacilitiesIdle
    /\ tableDoc \in Documents(ParkingRecords, MaxParkingRecords, {"notOk", "rejected"})
    /\ statusDoc \in Documents(StatusRecords, MaxStatusRecords, {"notOk", "rejected"})
    /\ ndwResponse = NoResponse
    /\ EuIdle
    /\ CallsIdle
    /\ ZenodoIdle
    /\ ClientIdle
    /\ ComponentsIdle
    /\ RaceIdle
    /\ ScorerIdle

SpecNdw == InitNdw /\ [][GET_ndw]_vars

(* One parkingRecord with and without coordinates, inside and outside the  *)
(* Netherlands, and with groups of parking spaces of every vehicle type    *)

MaxGroups == 2

GroupsOfParkingSpaces ==
    [parkingNumberOfSpaces : Option({18, 30}),
     vehicleType : Option({"lorry", "refrigeratedGoods", "heavyHaul", "car"})]

TableRecords ==
    [id : {Some("NL-12_421")}, name : {Some("Name")},
     latitude : Option({52, 60}), longitude : Option({5}),
     groupOfParkingSpaces : SeqsUpTo(GroupsOfParkingSpaces, MaxGroups)]

InitTable ==
    /\ FacilitiesIdle
    /\ tableDoc \in {[fetch |-> "ok", records |-> <<r>>] : r \in TableRecords}
    /\ statusDoc = [fetch |-> "ok", records |-> <<>>]
    /\ ndwResponse = NoResponse
    /\ EuIdle
    /\ CallsIdle
    /\ ZenodoIdle
    /\ ClientIdle
    /\ ComponentsIdle
    /\ RaceIdle
    /\ ScorerIdle

SpecTable == InitTable /\ [][GET_ndw]_vars

(* One parkingRecord P1 and one status record for it whose numbers and     *)
(* site status are whatever the feed carries                               *)

LiveStatusRecords ==
    [id : {Some("P1")},
     vacantSpaces : Option({-1, 3}),
     occupiedSpaces : Option({-2, 7}),
     occupancy : Option({70, 150}),
     status : Option({"", "spacesAvailable", "full", "closed"})]

InitStatus ==
    /\ FacilitiesIdle
    /\ tableDoc = [fetch |-> "ok",
                   records |-> <<[id |-> Some("P1"), name |-> Some("Name"),
                                  latitude |-> Some(52), longitude |-> Some(5),
                                  groupOfParkingSpaces |-> <<>>]>>]
    /\ statusDoc \in {[fetch |-> "ok", records |-> <<r>>] : r \in LiveStatusRecords}
    /\ ndwResponse = NoResponse
    /\ EuIdle
    /\ CallsIdle
    /\ ZenodoIdle
    /\ ClientIdle
    /\ ComponentsIdle
    /\ RaceIdle
    /\ ScorerIdle

SpecStatus == InitStatus /\ [][GET_ndw]_vars

EuRecords ==
    [id : Option({"E1", "E2"}), name : {Null}, latitude : Option({47}),
     longitude : {Some(13)}]

InitEu ==
    /\ FacilitiesIdle
    /\ NdwIdle
    /\ euUpstream \in [DOMAIN EU_DATA_SOURCES ->
                           Documents(EuRecords, MaxEuRecords,
                                     {"notOk", "rejected", "malformed"})]
    /\ euResponse = NoResponse
    /\ CallsIdle
    /\ ZenodoIdle
    /\ ClientIdle
    /\ ComponentsIdle
    /\ RaceIdle
    /\ ScorerIdle

SpecEu == InitEu /\ [][GET_eu]_vars

----------------------------------------------------------------------------
(* The map component (components/truck-parking-map.tsx): its three fetch   *)
(* callbacks, the effects and timers that call them, and the layer it      *)
(* draws from the live data.  A fetch the remote never answers leaves      *)
(* nothing behind but what its caller did before the await, so `pending`   *)
(* counts only the fetches that will settle.                               *)

MaxPending == 1

MaxMissed == 2

\* a fetch resolves with an ok response, resolves with one that is not ok,
\* or rejects
FetchOutcomes == {"ok", "notOk", "rejected"}

\* await fetch(url), the call: the request is in flight if the remote answers
Issue(s, answered) ==
    /\ answered => pending[s] < MaxPending
    /\ pending' = IF answered THEN [pending EXCEPT ![s] = @ + 1] ELSE pending
    /\ awaitingRetry' = [awaitingRetry EXCEPT ![s] = FALSE]

\* await fetch(url), the continuation: a response that is not ok throws
Settle(s, outcome) ==
    /\ pending[s] > 0
    /\ pending' = [pending EXCEPT ![s] = @ - 1]
    /\ awaitingRetry' = IF outcome = "ok" THEN awaitingRetry
                        ELSE [awaitingRetry EXCEPT ![s] = TRUE]

\* what /api/ndw answers: one facility, with and without live status
NdwBodies ==
    LET table  == <<[id |-> Some("P1"), name |-> Some("Name"),
                     latitude |-> Some(52), longitude |-> Some(5),
                     groupOfParkingSpaces |-> <<>>]>>
        status == [id |-> Some("P1"), vacantSpaces |-> Some(3),
                   occupiedSpaces |-> Some(7), occupancy |-> Some(70),
                   status |-> Some("spacesAvailable")]
    IN  {EnrichedFacilities(parseParkingTable(table), parseParkingStatus(records)) :
            records \in {<<>>, <<status>>}}

ZenodoBodies == {<<[id |-> "zenodo-DE-1", location |-> [latitude |-> 52, longitude |-> 5]]>>}

OsmBodies == {<<[name |-> <<"A">>, latitude |-> 52, longitude |-> 5,
                 facility_type |-> "rest_area"]>>}

\* LatLngBounds as <<south, west, north, east>>
Viewports == {<<50, 3, 54, 8>>, <<0, 0, 1, 1>>}

\* fetchNdwData up to its await, from component state st
fetchNdwData(st, answered) ==
    /\ Issue("ndw", answered)
    /\ map' = [st EXCEPT !.isRefreshingNdw = TRUE]

\* fetchZenodoData up to its await
fetchZenodoData(st, answered) ==
    /\ Issue("zenodo", answered)
    /\ map' = [st EXCEPT !.isRefreshingZenodo = TRUE]

\* fetchFacilities up to its await: without viewport it returns at once
fetchFacilities(st, answered) ==
    IF st.viewport = Null
    THEN /\ map' = st
         /\ UNCHANGED <<pending, awaitingRetry>>
    ELSE /\ Issue("osm", answered)
         /\ map' = [st EXCEPT !.isLoadingData = TRUE]

\* setInterval(fetchNdwData, 60000) fires
NdwInterval ==
    /\ \E answered \in BOOLEAN : fetchNdwData(map, answered)
    /\ UNCHANGED <<timeoutId, missed, routeVars, callVars, zenodoVars,
                   scorerVars, raceVars, componentVars>>

\* the refresh button of the NDW panel, disabled while refreshing
ClickRefreshNdw ==
    /\ ~map.isRefreshingNdw
    /\ \E answered \in BOOLEAN : fetchNdwData(map, answered)
    /\ UNCHANGED <<timeoutId, missed, routeVars, callVars, zenodoVars,
                   scorerVars, raceVars, componentVars>>

\* fetchNdwData after its await: try, catch and finally
NdwSettles ==
    /\ \E outcome \in FetchOutcomes, body \in NdwBodies :
           /\ Settle("ndw", outcome)
           /\ map' = IF outcome = "ok"
                     THEN [map EXCEPT !.ndwData = Some(body),
                                      !.isRefreshingNdw = FALSE]
                     ELSE [map EXCEPT !.isRefreshingNdw = FALSE]
           /\ missed' = IF outcome = "ok" THEN 0 ELSE Min(missed + 1, MaxMissed)
    /\ UNCHANGED <<timeoutId, routeVars, callVars, zenodoVars, scorerVars,
                   raceVars, componentVars>>

\* the NDW layer checkbox
ToggleNdwLayer ==
    /\ map' = [map EXCEPT !.showNdwLayer = ~map.showNdwLayer]
    /\ UNCHANGED <<timeoutId, pending, missed, awaitingRetry, routeVars,
                   callVars, zenodoVars, scorerVars, raceVars, componentVars>>

\* the Zenodo layer checkbox, and the effect on [showZenodoLayer] it triggers
ToggleZenodoLayer ==
    LET st == [map EXCEPT !.showZenodoLayer = ~map.showZenodoLayer]
    IN  /\ IF st.showZenodoLayer /\ st.zenodoData = Null
           THEN \E answered \in BOOLEAN : fetchZenodoData(st, answered)
           ELSE /\ map' = st
                /\ UNCHANGED <<pending, awaitingRetry>>
        /\ UNCHANGED <<timeoutId, missed, routeVars, callVars, zenodoVars,
                       scorerVars, raceVars, componentVars>>

\* the refresh button of the Zenodo panel, disabled while refreshing
ClickRefreshZenodo ==
    /\ ~map.isRefreshingZenodo
    /\ \E answered \in BOOLEAN : fetchZenodoData(map, answered)
    /\ UNCHANGED <<timeoutId, missed, routeVars, callVars, zenodoVars,
                   scorerVars, raceVars, componentVars>>

\* fetchZenodoData after its await
ZenodoSettles ==
    /\ \E outcome \in FetchOutcomes, body \in ZenodoBodies :
           /\ Settle("zenodo", outcome)
           /\ map' = IF outcome = "ok"
                     THEN [map EXCEPT !.zenodoData = Some(body),
                                      !.isRefreshingZenodo = FALSE]
                     ELSE [map EXCEPT !.isRefreshingZenodo = FALSE]
    /\ UNCHANGED <<timeoutId, missed, routeVars, callVars, zenodoVars,
                   scorerVars, raceVars, componentVars>>

\* MapEventHandler reports a new viewport: fetchFacilities is rebuilt, the
\* debounce effect clears its timer and sets a new one
onViewportChange ==
    /\ \E v \in Viewports :
           /\ map.viewport # Some(v)
           /\ map' = [map EXCEPT !.viewport = Some(v)]
    /\ timeoutId' = TRUE
    /\ UNCHANGED <<pending, missed, awaitingRetry, routeVars, callVars,
                   zenodoVars, scorerVars, raceVars, componentVars>>

\* the debounce timer fires after 500 ms
DebounceFires ==
    /\ timeoutId
    /\ timeoutId' = FALSE
    /\ \E answered \in BOOLEAN : fetchFacilities(map, answered)
    /\ UNCHANGED <<missed, routeVars, callVars, zenodoVars, scorerVars,
                   raceVars, componentVars>>

\* fetchFacilities after its await
FacilitiesSettle ==
    /\ \E outcome \in FetchOutcomes, body \in OsmBodies :
           /\ Settle("osm", outcome)
           /\ map' = IF outcome = "ok"
                     THEN [map EXCEPT !.data = Some(body),
                                      !.isLoadingData = FALSE]
                     ELSE [map EXCEPT !.isLoadingData = FALSE]
    /\ UNCHANGED <<timeoutId, missed, routeVars, callVars, zenodoVars,
                   scorerVars, raceVars, componentVars>>

\* useMemo filteredNdwData
filteredNdwData(st) ==
    IF st.ndwData = Null THEN <<>>
    ELSE IF st.viewport = Null THEN Get(st.ndwData)
    ELSE LET v == Get(st.viewport)
         IN  SelectSeq(Get(st.ndwData),
                       LAMBDA f : /\ f.location.latitude >= v[1]
                                  /\ f.location.latitude <= v[3]
                                  /\ f.location.longitude >= v[2]
                                  /\ f.location.longitude <= v[4])

\* the features of the NDW real-time layer, as drawn
NdwLayer(st) ==
    IF st.showNdwLayer /\ Len(filteredNdwData(st)) > 0
    THEN filteredNdwData(st) ELSE <<>>

\* after mount: the NDW effect has called fetchNdwData and armed the
\* interval, the debounce effect has set its timer
InitClient ==
    /\ FacilitiesIdle
    /\ NdwIdle
    /\ EuIdle
    /\ CallsIdle
    /\ ZenodoIdle
    /\ map = [InitialState EXCEPT !.isRefreshingNdw = TRUE]
    /\ timeoutId = TRUE
    /\ pending \in {[s \in Sources |-> IF s = "ndw" /\ answered THEN 1 ELSE 0] :
                       answered \in BOOLEAN}
    /\ missed = 0
    /\ awaitingRetry = [s \in Sources |-> FALSE]
    /\ ScorerIdle
    /\ RaceIdle
    /\ ComponentsIdle

\* what happens by itself: timers and settling fetches
ClientAutomatic ==
    \/ NdwInterval
    \/ NdwSettles
    \/ ZenodoSettles
    \/ DebounceFires
    \/ FacilitiesSettle

\* what the user does
ClientUser ==
    \/ ClickRefreshNdw
    \/ ToggleNdwLayer
    \/ ToggleZenodoLayer
    \/ ClickRefreshZenodo
    \/ onViewportChange

NextClient == ClientAutomatic \/ ClientUser

SpecClient == InitClient /\ [][NextClient]_vars

\* timers fire and fetches the remote answers settle; nothing obliges the user
SpecClientLive ==
    /\ SpecClient
    /\ WF_vars(NdwInterval)
    /\ WF_vars(NdwSettles)
    /\ WF_vars(ZenodoSettles)
    /\ WF_vars(DebounceFires)
    /\ WF_vars(FacilitiesSettle)

----------------------------------------------------------------------------
(* Overlapping /api/facilities requests of the map component: a request is *)
(* issued when the debounce timer fires, and the responses arrive in any   *)
(* order.                                                                  *)

MaxInFlight == 2

\* what the server holds: one facility in the Netherlands, one at 0,0
ServedFacilities ==
    <<Transform(Feature(Some(<<"A">>), 52, 5,
                        Some(Classification(FALSE, FALSE, TRUE)), Null)),
      Transform(Feature(Some(<<"B">>), 0, 0,
                        Some(Classification(TRUE, FALSE, FALSE)), Null))>>

\* the URLSearchParams of fetchFacilities: every filter enabled, no search term
FacilitiesParams(bounds) ==
    Request(Some(bounds),
            Some(ClientTypesParam([t \in {FacilityTypes[k] : k \in DOMAIN FacilityTypes}
                                      |-> TRUE])),
            Some(<<>>), Some(2000), Null)

\* await response.json() of the request for these bounds
FacilitiesResult(bounds) == QueryResponse(ServedFacilities, FacilitiesParams(bounds))

\* the debounce timer fires: fetchFacilities up to its await
FacilitiesRequestIssued ==
    /\ timeoutId
    /\ timeoutId' = FALSE
    /\ IF map.viewport = Null
       THEN UNCHANGED <<map, inFlight, latest>>
       ELSE /\ Len(inFlight) < MaxInFlight
            /\ map' = [map EXCEPT !.isLoadingData = TRUE]
            /\ inFlight' = Append(inFlight, Get(map.viewport))
            /\ latest' = Some([bounds |-> Get(map.viewport), outcome |-> "pending",
                               position |-> Len(inFlight) + 1])
    /\ UNCHANGED <<stats, pending, missed, awaitingRetry, routeVars, callVars,
                   zenodoVars, scorerVars, componentVars>>

\* inFlight without its k-th request
WithoutRequest(k) ==
    [i \in 1..(Len(inFlight) - 1) |-> IF i < k THEN inFlight[i] ELSE inFlight[i + 1]]

\* the response of any request in flight arrives: fetchFacilities after its
\* await sets the data and the statistics, or logs the error
FacilitiesResponseArrives ==
    /\ \E k \in DOMAIN inFlight, outcome \in FetchOutcomes :
           LET result == FacilitiesResult(inFlight[k])
               isLatest == Get(latest).position = k
           IN  /\ inFlight' = WithoutRequest(k)
               /\ latest' = IF isLatest
                            THEN Some([Get(latest) EXCEPT !.outcome = outcome,
                                                          !.position = 0])
                            ELSE IF Get(latest).position > k
                            THEN Some([Get(latest) EXCEPT !.position = @ - 1])
                            ELSE latest
               /\ IF outcome = "ok"
                  THEN /\ map' = [map EXCEPT !.data = Some(result.facilities),
                                             !.isLoadingData = FALSE]
                       /\ stats' = Some(result.stats)
                  ELSE /\ map' = [map EXCEPT !.isLoadingData = FALSE]
                       /\ UNCHANGED stats
    /\ UNCHANGED <<timeoutId, pending, missed, awaitingRetry, routeVars,
                   callVars, zenodoVars, scorerVars, componentVars>>

\* after mount the debounce effect has set its timer
InitRace ==
    /\ FacilitiesIdle
    /\ NdwIdle
    /\ EuIdle
    /\ CallsIdle
    /\ ZenodoIdle
    /\ ScorerIdle
    /\ map = InitialState
    /\ timeoutId = TRUE
    /\ pending = [s \in Sources |-> 0]
    /\ missed = 0
    /\ awaitingRetry = [s \in Sources |-> FALSE]
    /\ RaceIdle
    /\ ComponentsIdle

NextRace ==
    \/ onViewportChange
    \/ FacilitiesRequestIssued
    \/ FacilitiesResponseArrives

SpecRace == InitRace /\ [][NextRace]_vars

----------------------------------------------------------------------------
(* Concurrent invocations of GET /api/facilities.  An invocation runs      *)
(* without interruption from one await to the next: it is suspended while  *)
(* readFile is under way and once more when loadAndTransformData has       *)
(* returned.                                                               *)

MaxCalls == 2

MaxStoreFeatures == 2

NoRequest == Request(Null, Null, Null, Null, Null)

IdleCall == [pc |-> "idle", request |-> NoRequest, data |-> <<>>]

\* three facilities of different type, name and position, and a feature
\* without classification
StoreFeatures ==
    {Feature(Some(<<"A">>), 0, 0, Some(Classification(TRUE, FALSE, FALSE)), Null),
     Feature(Some(<<"B">>), 1, 1, Some(Classification(FALSE, TRUE, FALSE)), Null),
     Feature(Some(<<"a">>), 1, 0, Some(Classification(FALSE, FALSE, FALSE)), Null),
     Feature(Some(<<"A">>), 0, 0, Null, Null)}

\* queries with bounds, types, search, limit and offset
StoreRequests ==
    {NoRequest,
     Request(Some(<<0, 0, 0, 1>>), Null, Null, Some(1), Null),
     Request(Null, Some(<<"service_area">>), Null, Null, Some(1)),
     Request(Null, Null, Some(<<"A">>), Some(1), Some(1))}

\* a query that pages with splice, which cuts the page out of the store
cachedDataAfterSplice(cache, req) ==
    Some(Paginate(Get(cache), Offset(req), Limit(req)))

\* what the query statements leave in cachedData: filter and slice build new
\* arrays and only the local `data` is reassigned
cachedDataAfterQuery(cache, req) == cache

\* an invocation that reads the snapshot file whether or not the store is
\* there
GET_callAlwaysReads(i) ==
    /\ calls[i].pc = "idle"
    /\ \E req \in StoreRequests :
           calls' = [calls EXCEPT ![i] =
                        [pc |-> "readFile", request |-> req, data |-> <<>>]]
    /\ UNCHANGED <<snapshot, cachedData, request, response, firstLoad,
                   tableDoc, statusDoc, ndwResponse, euUpstream, euResponse,
                   zenodoVars, clientVars, scorerVars, raceVars,
                   componentVars>>

\* GET up to its first suspension: the parameters are read and
\* loadAndTransformData returns the cache or awaits readFile
GET_call(i) ==
    /\ calls[i].pc = "idle"
    /\ \E req \in StoreRequests :
           calls' = [calls EXCEPT ![i] =
                        IF cachedData # Null
                        THEN [pc |-> "loaded", request |-> req, data |-> Get(cachedData)]
                        ELSE [pc |-> "readFile", request |-> req, data |-> <<>>]]
    /\ UNCHANGED <<snapshot, cachedData, request, response, firstLoad,
                   tableDoc, statusDoc, ndwResponse, euUpstream, euResponse,
                   zenodoVars, clientVars, scorerVars, raceVars,
                   componentVars>>

\* readFile has settled: the rest of loadAndTransformData, or the catch of GET
GET_readFile(i) ==
    LET load == loadAndTransformData(Null, snapshot)
    IN  /\ calls[i].pc = "readFile"
        /\ IF load.threw
           THEN /\ response' = ErrorResponse
                /\ calls' = [calls EXCEPT ![i] = IdleCall]
                /\ UNCHANGED <<cachedData, firstLoad>>
           ELSE /\ cachedData' = load.cachedData
                /\ firstLoad' = IF firstLoad = Null THEN load.cachedData ELSE firstLoad
                /\ calls' = [calls EXCEPT ![i].pc = "loaded", ![i].data = load.data]
                /\ UNCHANGED response
        /\ UNCHANGED <<snapshot, request, tableDoc, statusDoc, ndwResponse,
                       euUpstream, euResponse, zenodoVars, clientVars,
                       scorerVars, raceVars, componentVars>>

\* the try block after `await loadAndTransformData()`
GET_respond(i) ==
    /\ calls[i].pc = "loaded"
    /\ response' = QueryResponse(calls[i].data, calls[i].request)
    /\ cachedData' = cachedDataAfterQuery(cachedData, calls[i].request)
    /\ calls' = [calls EXCEPT ![i] = IdleCall]
    /\ UNCHANGED <<snapshot, request, firstLoad, tableDoc, statusDoc,
                   ndwResponse, euUpstream, euResponse, zenodoVars,
                   clientVars, scorerVars, raceVars, componentVars>>

InitConcurrent ==
    /\ snapshot \in ReadableSnapshots(StoreFeatures, MaxStoreFeatures)
                        \cup {UnreadableSnapshot}
    /\ cachedData = Null
    /\ request = NoRequest
    /\ response = NoResponse
    /\ calls = [i \in 1..MaxCalls |-> IdleCall]
    /\ firstLoad = Null
    /\ NdwIdle
    /\ EuIdle
    /\ ZenodoIdle
    /\ ClientIdle
    /\ ComponentsIdle
    /\ RaceIdle
    /\ ScorerIdle

NextConcurrent ==
    \E i \in 1..MaxCalls : GET_call(i) \/ GET_readFile(i) \/ GET_respond(i)

SpecConcurrent == InitConcurrent /\ [][NextConcurrent]_vars

----------------------------------------------------------------------------
(* GET /api/zenodo  (the Zenodo route, src/unnamed/part_003)               *)
(*                                                                         *)
(* csvText is what the Zenodo URL serves: [fetch, text], the text a        *)
(* sequence of symbols (digits, words, ";", the double quote, the space    *)
(* and the line feed).  NaN and undefined are the absent value.            *)

Quote == "\""

Whitespace == {" ", "\n"}

RECURSIVE trimStart(_)
trimStart(s) ==
    IF s # <<>> /\ Head(s) \in Whitespace THEN trimStart(Tail(s)) ELSE s

RECURSIVE trimEnd(_)
trimEnd(s) ==
    IF s # <<>> /\ s[Len(s)] \in Whitespace
    THEN trimEnd(SubSeq(s, 1, Len(s) - 1)) ELSE s

\* String.prototype.trim
trim(s) == trimEnd(trimStart(s))

\* replace(/^"|"$/g, ''): a quote at the start and a quote at the end go
stripQuotes(s) ==
    LET front == IF s # <<>> /\ Head(s) = Quote THEN Tail(s) ELSE s
    IN  IF front # <<>> /\ front[Len(front)] = Quote
        THEN SubSeq(front, 1, Len(front) - 1) ELSE front

\* a loop that ends the field at every semicolon, quoted or not
RECURSIVE scanFieldsIgnoringQuotes(_, _, _, _)
scanFieldsIgnoringQuotes(line, fields, currentField, inQuotes) ==
    IF line = <<>> THEN Append(fields, trim(currentField))
    ELSE LET char == Head(line)
         IN  IF char = Quote
             THEN scanFieldsIgnoringQuotes(Tail(line), fields, currentField,
                                           ~inQuotes)
             ELSE IF char = ";"
             THEN scanFieldsIgnoringQuotes(Tail(line),
                                           Append(fields, trim(currentField)),
                                           <<>>, inQuotes)
             ELSE scanFieldsIgnoringQuotes(Tail(line), fields,
                                           Append(currentField, char), inQuotes)

\* the loop over the characters of a line: quotes toggle inQuotes and are
\* dropped, a semicolon outside quotes ends the field
RECURSIVE scanFields(_, _, _, _)
scanFields(line, fields, currentField, inQuotes) ==
    IF line = <<>> THEN Append(fields, trim(currentField))
    ELSE LET char == Head(line)
         IN  IF char = Quote
             THEN scanFields(Tail(line), fields, currentField, ~inQuotes)
             ELSE IF char = ";" /\ ~inQuotes
             THEN scanFields(Tail(line), Append(fields, trim(currentField)),
                             <<>>, inQuotes)
             ELSE scanFields(Tail(line), fields, Append(currentField, char),
                             inQuotes)

DigitValue(c) == CASE c = "0" -> 0 [] c = "2" -> 2 [] c = "5" -> 5 [] c = "9" -> 9

IsDigit(c) == c \in {"0", "2", "5", "9"}

\* the value of the digits a string starts with
RECURSIVE leadingDigits(_, _)
leadingDigits(s, value) ==
    IF s = <<>> \/ ~IsDigit(Head(s)) THEN value
    ELSE leadingDigits(Tail(s), 10 * value + DigitValue(Head(s)))

\* parseFloat: leading white space is skipped, the longest numeric prefix is
\* the value, NaN when there is none or the argument is undefined
parseFloat(field) ==
    IF field = Null THEN Null
    ELSE LET str == trimStart(Get(field))
         IN  IF str = <<>> \/ ~IsDigit(Head(str)) THEN Null
             ELSE Some(leadingDigits(str, 0))

\* fields[index]: undefined outside the array
fieldAt(fields, index) ==
    IF index + 1 \in DOMAIN fields THEN Some(fields[index + 1]) ELSE Null

\* headers.findIndex(h => h.toLowerCase().includes(k1) || ...): -1 when no
\* header matches
findIndex(headers, keys) ==
    LET hits == {k \in DOMAIN headers :
                    \E key \in keys : includes(toLowerCase(headers[k]), <<key>>)}
    IN  IF hits = {} THEN -1
        ELSE (CHOOSE k \in hits : \A h \in hits : k <= h) - 1

\* lines[0].split(';').map(h => h.trim().replace(/^"|"$/g, ''))
parseHeaders(line) ==
    LET cells == split(line, ";")
    IN  [k \in DOMAIN cells |-> stripQuotes(trim(cells[k]))]

ColumnIndices(headers) ==
    [lat      |-> findIndex(headers, {"lat"}),
     lon      |-> findIndex(headers, {"lon"}),
     country  |-> findIndex(headers, {"country"}),
     category |-> findIndex(headers, {"category", "type"}),
     area     |-> findIndex(headers, {"area", "size"}),
     name     |-> findIndex(headers, {"name", "id"})]

\* a row that reads a column it does not have: undefined.replace throws
RowThrows(fields, index) ==
    \E column \in {"country", "category", "name"} :
        index[column] >= 0 /\ fieldAt(fields, index[column]) = Null

\* the facility pushed for data row i
ZenodoFacility(fields, index, i) ==
    LET country  == IF index.country >= 0
                    THEN stripQuotes(Get(fieldAt(fields, index.country)))
                    ELSE <<"Unknown">>
        category == IF index.category >= 0
                    THEN stripQuotes(Get(fieldAt(fields, index.category)))
                    ELSE <<"parking">>
        area     == IF index.area >= 0
                    THEN parseFloat(fieldAt(fields, index.area)) ELSE Null
        name     == IF index.name >= 0
                    THEN stripQuotes(Get(fieldAt(fields, index.name)))
                    ELSE country \o <<"-", ToString(i)>>
    IN  [id       |-> <<"zenodo-">> \o country \o <<"-", ToString(i)>>,
         name     |-> IF name = <<>> THEN <<"Parking ", ToString(i)>> ELSE name,
         category |-> category,
         location |-> [latitude  |-> Get(parseFloat(fieldAt(fields, index.lat))),
                       longitude |-> Get(parseFloat(fieldAt(fields, index.lon)))],
         country  |-> country,
         area     |-> IF area = Null \/ area = Some(0) THEN Null ELSE area]

\* lat === null || lon === null || isNaN(lat) || isNaN(lon)
InvalidCoordinates(fields, index) ==
    \/ index.lat < 0
    \/ index.lon < 0
    \/ parseFloat(fieldAt(fields, index.lat)) = Null
    \/ parseFloat(fieldAt(fields, index.lon)) = Null

\* for (let i = 1; i < lines.length; i++): blank lines and rows with
\* invalid coordinates are passed over, a throw leaves the function
RECURSIVE parseRows(_, _, _, _)
parseRows(lines, index, i, facilities) ==
    IF i >= Len(lines) THEN [threw |-> FALSE, facilities |-> facilities]
    ELSE LET line   == trim(lines[i + 1])
             fields == scanFields(line, <<>>, <<>>, FALSE)
         IN  IF line = <<>> \/ InvalidCoordinates(fields, index)
             THEN parseRows(lines, index, i + 1, facilities)
             ELSE IF RowThrows(fields, index)
             THEN [threw |-> TRUE, facilities |-> <<>>]
             ELSE parseRows(lines, index, i + 1,
                      Append(facilities, ZenodoFacility(fields, index, i)))

\* [threw, facilities]
parseCSV(text) ==
    LET lines == split(trim(text), "\n")
    IN  parseRows(lines, ColumnIndices(parseHeaders(lines[1])), 1, <<>>)

ZenodoErrorResponse ==
    [status |-> 500, error |-> "Failed to fetch Zenodo truck parking data"]

GET_zenodo ==
    /\ zenodoResponse' =
           IF csvText.fetch # "ok" THEN ZenodoErrorResponse
           ELSE LET parsed == parseCSV(csvText.text)
                IN  IF parsed.threw THEN ZenodoErrorResponse
                    ELSE [status          |-> 200,
                          facilities      |-> parsed.facilities,
                          totalFacilities |-> Len(parsed.facilities),
                          countries       |-> Cardinality(
                              {parsed.facilities[k].country :
                                   k \in DOMAIN parsed.facilities})]
    /\ UNCHANGED <<routeVars, callVars, csvText, clientVars, scorerVars,
                   raceVars, componentVars>>

MaxCsvRows == 2

\* header rows: quoted and capitalised names, with and without country
CsvHeaders ==
    {<<Quote, "Lat", Quote, ";", "lon", ";", " ", "country">>,
     <<"lat", ";", "lon">>}

\* data rows: complete, with unparseable or out-of-range coordinates, with
\* quoted fields, blank, and short of the country column
CsvRows ==
    {<<"5", "2", ";", "5", ";", "DE">>,
     <<"x", ";", "5", ";", "DE">>,
     <<"5", "2", ";", ";", "NL">>,
     <<"5", "x", ";", "5", ";", "NL">>,
     <<"9", "9", ";", "5", ";", "DE">>,
     <<" ", Quote, "5", "2", Quote, ";", "5", ";", Quote, "D", ";", "E", Quote, " ">>,
     <<" ">>,
     <<"5", "2", ";", "5">>,
     <<"x">>}

\* the rows after the header, one per line
RECURSIVE joinLines(_)
joinLines(rows) ==
    IF rows = <<>> THEN <<>>
    ELSE IF Len(rows) = 1 THEN rows[1]
    ELSE rows[1] \o <<"\n">> \o joinLines(Tail(rows))

CsvTexts ==
    {joinLines(<<header>> \o rows) :
        header \in CsvHeaders, rows \in SeqsUpTo(CsvRows, MaxCsvRows)}
    \cup {<<>>}

InitZenodo ==
    /\ FacilitiesIdle
    /\ NdwIdle
    /\ EuIdle
    /\ CallsIdle
    /\ ClientIdle
    /\ ComponentsIdle
    /\ RaceIdle
    /\ ScorerIdle
    /\ csvText \in {[fetch |-> "ok", text |-> t] : t \in CsvTexts}
                       \cup {[fetch |-> f, text |-> <<>>] : f \in {"notOk", "rejected"}}
    /\ zenodoResponse = NoResponse

SpecZenodo == InitZenodo /\ [][GET_zenodo]_vars

----------------------------------------------------------------------------
(* The confidence score of a facility, in hundredths                       *)

BaseScore == 50

NameBonus == 10

CapacityBonus == 15

PolygonBonus == 10

AmenityBonus == 5

OperatorBonus == 5

HgvBonus == 5

MaxScore == 100

\* a name bonus of half the documented size
ConfidenceScoreSmallNameBonus(f) ==
    Min(BaseScore
        + (IF Falsy(f.name) THEN 0 ELSE NameBonus \div 2)
        + (IF f.capacity = Null THEN 0 ELSE CapacityBonus)
        + (IF f.polygon THEN PolygonBonus ELSE 0)
        + (IF f.amenities = {} THEN 0 ELSE AmenityBonus)
        + (IF Falsy(f.operator) THEN 0 ELSE OperatorBonus)
        + (IF f.hgv THEN HgvBonus ELSE 0),
        MaxScore)

\* the score starts at the base, gains a bonus for each piece of data the
\* facility has, and is capped
ConfidenceScore(f) ==
    Min(BaseScore
        + (IF Falsy(f.name) THEN 0 ELSE NameBonus)
        + (IF f.capacity = Null THEN 0 ELSE CapacityBonus)
        + (IF f.polygon THEN PolygonBonus ELSE 0)
        + (IF f.amenities = {} THEN 0 ELSE AmenityBonus)
        + (IF Falsy(f.operator) THEN 0 ELSE OperatorBonus)
        + (IF f.hgv THEN HgvBonus ELSE 0),
        MaxScore)

\* the facilities to score: every combination of the six kinds of data
MergedFacilities ==
    [name : Option({"", "De Lucht"}), capacity : Option({357}),
     polygon : BOOLEAN, amenities : SUBSET {"fuel"},
     operator : Option({"", "Shell"}), hgv : BOOLEAN]

\* the scorer runs once on the facility
ScoreFacility ==
    /\ confidence_score = Null
    /\ confidence_score' = Some(ConfidenceScore(merged))
    /\ UNCHANGED <<merged, routeVars, callVars, zenodoVars, clientVars,
                   raceVars, componentVars>>

InitScorer ==
    /\ FacilitiesIdle
    /\ NdwIdle
    /\ EuIdle
    /\ CallsIdle
    /\ ZenodoIdle
    /\ ClientIdle
    /\ ComponentsIdle
    /\ RaceIdle
    /\ merged \in MergedFacilities
    /\ confidence_score = Null

SpecScorer == InitScorer /\ [][ScoreFacility]_vars

----------------------------------------------------------------------------
(* The two map components that load a static file themselves and derive    *)
(* facility_type in the browser                                            *)

MaxTypeFeatures == 2

\* TruckParkingMap: the type of a GeoJSON feature, from its properties
facility_type_TruckParkingMap(properties) ==
    IF properties.is_truck_parking THEN "truck_parking"
    ELSE IF properties.is_service_area THEN "service_area"
    ELSE IF properties.is_rest_area THEN "rest_area"
    ELSE "rest_area"

\* TruckParkingMapEnhanced: the type of an enriched feature
facility_type_TruckParkingMapEnhanced(classification) ==
    IF classification.is_truck_parking THEN "truck_parking"
    ELSE IF classification.is_service_area THEN "service_area"
    ELSE IF classification.is_rest_area THEN "rest_area"
    ELSE "rest_area"

\* the statistics both components count over the transformed features
statsObj(types) ==
    [total         |-> Len(types),
     truck_parking |-> Cardinality({k \in DOMAIN types : types[k] = "truck_parking"}),
     service_area  |-> Cardinality({k \in DOMAIN types : types[k] = "service_area"}),
     rest_area     |-> Cardinality({k \in DOMAIN types : types[k] = "rest_area"})]

\* /truck_parking_facilities.geojson: the facilities of the snapshot, their
\* flags in the properties of each feature
geojson(snap) ==
    [k \in DOMAIN snap.features |->
        [properties |-> [name             |-> snap.features[k].name,
                         is_truck_parking |->
                             Get(snap.features[k].classification).is_truck_parking,
                         is_service_area  |->
                             Get(snap.features[k].classification).is_service_area,
                         is_rest_area     |->
                             Get(snap.features[k].classification).is_rest_area]]]

\* the effect of TruckParkingMap once its fetch has resolved; a failed fetch
\* or a throwing callback ends in .catch, which only logs
TruckParkingMap_useEffect ==
    /\ geojsonData = Null
    /\ ~LoadThrows(snapshot)
    /\ LET features == geojson(snapshot)
           transformedFeatures ==
               [k \in DOMAIN features |->
                   [properties |->
                       [name |-> features[k].properties.name,
                        is_truck_parking |-> features[k].properties.is_truck_parking,
                        is_service_area |-> features[k].properties.is_service_area,
                        is_rest_area |-> features[k].properties.is_rest_area,
                        facility_type |->
                            facility_type_TruckParkingMap(features[k].properties)]]]
       IN  geojsonData' =
               Some([data  |-> transformedFeatures,
                     stats |-> statsObj([k \in DOMAIN transformedFeatures |->
                                   transformedFeatures[k].properties.facility_type])])
    /\ UNCHANGED <<enrichedData, routeVars, callVars, zenodoVars, clientVars,
                   scorerVars, raceVars>>

\* the effect of TruckParkingMapEnhanced once its fetch has resolved
TruckParkingMapEnhanced_useEffect ==
    /\ enrichedData = Null
    /\ ~LoadThrows(snapshot)
    /\ LET transformedFeatures ==
               [k \in DOMAIN snapshot.features |->
                   [name           |-> snapshot.features[k].name,
                    latitude       |-> snapshot.features[k].latitude,
                    longitude      |-> snapshot.features[k].longitude,
                    classification |-> snapshot.features[k].classification,
                    location       |-> snapshot.features[k].location,
                    facility_type  |->
                        facility_type_TruckParkingMapEnhanced(
                            Get(snapshot.features[k].classification))]]
       IN  enrichedData' =
               Some([data  |-> transformedFeatures,
                     stats |-> statsObj([k \in DOMAIN transformedFeatures |->
                                   transformedFeatures[k].facility_type])])
    /\ UNCHANGED <<geojsonData, routeVars, callVars, zenodoVars, clientVars,
                   scorerVars, raceVars>>

\* one facility for every combination of the three flags
TypeFeatures ==
    {Feature(Some(<<"A">>), 0, 0, Some(Classification(tp, sa, ra)), Null) :
        tp \in BOOLEAN, sa \in BOOLEAN, ra \in BOOLEAN}

InitTypes ==
    InitFacilities(ReadableSnapshots(TypeFeatures, MaxTypeFeatures),
                   {Request(Null, Null, Null, Null, Null)})

NextTypes ==
    \/ GET_facilities
    \/ TruckParkingMap_useEffect
    \/ TruckParkingMapEnhanced_useEffect

SpecTypes == InitTypes /\ [][NextTypes]_vars

----------------------------------------------------------------------------
(* Properties of GET /api/facilities                                       *)

\* the store a successful query has read
Store == Get(cachedData)

\* t is one of the comma-separated words of the `types` parameter
TypeNamed(param, t) ==
    \E i \in DOMAIN param :
        /\ param[i] = t
        /\ (i = 1 \/ param[i - 1] = ",")
        /\ (i = Len(param) \/ param[i + 1] = ",")

TypeAsked(f) ==
    request.types = Null \/ TypeNamed(Get(request.types), f.facility_type)

InsideBounds(f) ==
    request.bounds = Null \/
    LET b == Get(request.bounds)
    IN  /\ b[1] <= f.latitude /\ f.latitude <= b[3]
        /\ b[2] <= f.longitude /\ f.longitude <= b[4]

\* text occurs in s, letter case ignored
OccursIn(text, s) ==
    \E k \in 0..(Len(s) - Len(text)) :
        \A j \in 1..Len(text) : LowerChar(s[k + j]) = LowerChar(text[j])

FieldsOf(f) ==
    f.name \cup
    (IF f.location = Null THEN {}
     ELSE Get(f.location).municipality \cup Get(f.location).province
          \cup Get(f.location).highway)

SearchGiven == request.search # Null /\ Get(request.search) # <<>>

SearchFound(f) ==
    ~SearchGiven \/ \E s \in FieldsOf(f) : OccursIn(Get(request.search), s)

\* positions in the store of the facilities that pass the three filters
Passing == {i \in DOMAIN Store :
                InsideBounds(Store[i]) /\ TypeAsked(Store[i]) /\ SearchFound(Store[i])}

\* the n-th passing facility, in store order
NthPassing(n) ==
    Store[CHOOSE i \in Passing : Cardinality({j \in Passing : j < i}) = n - 1]

Answered == response.status = 200

\* C1: with bounds given, every facility returned lies in the rectangle,
\* edges included, and every stored facility in the rectangle that passes
\* the type and search filters is in the filtered set (here the whole
\* filtered set is returned: limit and offset are the defaults)
C1_ViewportContainment ==
    (Answered /\ request.bounds # Null) =>
        /\ \A j \in DOMAIN response.facilities :
               InsideBounds(response.facilities[j])
        /\ response.total = Cardinality(Passing)
        /\ \A i \in Passing :
               \E j \in DOMAIN response.facilities :
                   response.facilities[j] = Store[i]

\* a facility on the edge of the rectangle is returned while another one,
\* outside, is held back
C1_Witness ==
    /\ Answered /\ request.bounds # Null
    /\ Len(Store) = 2 /\ Len(response.facilities) = 1
    /\ response.facilities[1].latitude = Get(request.bounds)[3]
    /\ response.facilities[1].longitude = Get(request.bounds)[4]
    /\ \E i \in DOMAIN Store : ~InsideBounds(Store[i]) /\ TypeAsked(Store[i])

\* C2: total and the per-type stats count the whole filtered set, whatever
\* limit and offset are
C2_TotalAndStatsBeforePagination ==
    Answered =>
        /\ response.total = Cardinality(Passing)
        /\ response.stats.total = Cardinality(Passing)
        /\ \A k \in DOMAIN FacilityTypes :
               response.stats[FacilityTypes[k]] =
                   Cardinality({i \in Passing : Store[i].facility_type = FacilityTypes[k]})

\* a page shorter than the filtered set, which holds two types
C2_Witness ==
    /\ Answered
    /\ request.limit # Null
    /\ Len(response.facilities) < response.total
    /\ response.total < Len(Store)
    /\ response.stats.truck_parking > 0 /\ response.stats.rest_area > 0

\* C3: for offset >= 0 and limit > 0 the page is the elements offset ..
\* offset+limit-1 of the filtered list in store order, so it has at most
\* limit elements and consecutive pages tile the filtered list
C3_PageIsSliceOfFiltered ==
    (Answered /\ response.offset >= 0 /\ response.limit > 0) =>
        /\ Len(response.facilities) <= response.limit
        /\ Len(response.facilities) =
               Min(response.limit, Max(Cardinality(Passing) - response.offset, 0))
        /\ \A j \in DOMAIN response.facilities :
               response.facilities[j] = NthPassing(response.offset + j)

\* a second page of a filtered list that needs more than one
C3_Witness ==
    /\ Answered
    /\ request.limit # Null /\ request.offset # Null
    /\ response.offset = response.limit /\ response.limit = 2
    /\ Len(response.facilities) = 1
    /\ response.total = 3
    /\ response.facilities[1] # NthPassing(1)

\* C4: a query that names no type (parameter absent, or the empty string
\* the client sends with every checkbox off) is answered as if all three
\* types had been requested
C4_EmptyTypesMeansAll ==
    (Answered /\ (request.types = Null \/ Get(request.types) = <<>>)) =>
        response.total =
            Cardinality({i \in DOMAIN Store :
                            InsideBounds(Store[i]) /\ SearchFound(Store[i])})

\* C5: a non-empty search text keeps exactly the facilities in whose name,
\* municipality, province or highway it occurs, letter case ignored; absent
\* location fields are skipped without error (a stored name is all the
\* filter needs); an empty search text removes nothing
C5_SearchFilter ==
    /\ (response.status # 0 /\ \A i \in DOMAIN snapshot.features :
                                    snapshot.features[i].name # Null)
           => Answered
    /\ Answered =>
           /\ response.total = Cardinality(Passing)
           /\ \A j \in DOMAIN response.facilities :
                  SearchFound(response.facilities[j])
           /\ \A i \in Passing :
                  \E j \in DOMAIN response.facilities :
                      response.facilities[j] = Store[i]
    /\ (Answered /\ ~SearchGiven) => response.facilities = Store

\* an upper-case search text found in the municipality only, of a facility
\* without province, while another facility is filtered out
C5_Witness ==
    /\ Answered /\ SearchGiven
    /\ \E k \in DOMAIN Get(request.search) : Get(request.search)[k] = "B"
    /\ response.total = 1 /\ Len(Store) = 2
    /\ LET f == response.facilities[1]
       IN  /\ f.location # Null
           /\ Get(f.location).province = Null
           /\ Get(f.location).municipality # Null
           /\ ~OccursIn(Get(request.search), Get(f.name))
    /\ \E i \in DOMAIN Store : Store[i].location = Null

\* C6: GET /api/facilities never answers with an error response, whatever
\* the state of the snapshot
C6_NeverErrorResponse == response.status \in {0, 200}

\* C19: a readable snapshot is loaded whatever its features lack: once a
\* query has been made the store holds one facility per feature, a feature
\* without classification as rest_area and every other feature with the
\* type its flags give.
C19_IncompleteFeaturesAreLoaded ==
    (response # NoResponse /\ snapshot.readable) =>
        /\ response.status = 200
        /\ cachedData # Null
        /\ Len(Store) = Len(snapshot.features)
        /\ \A k \in DOMAIN snapshot.features :
               Store[k].facility_type =
                   (IF snapshot.features[k].classification = Null THEN "rest_area"
                    ELSE facility_type(Get(snapshot.features[k].classification)))

----------------------------------------------------------------------------
(* Properties of GET /api/ndw                                              *)

NdwAnswered == ndwResponse.status = 200

\* positions of the status records that carry the id, which must be present
StatusRecordsWithId(id) ==
    {k \in DOMAIN statusDoc.records :
        statusDoc.records[k].id # Null /\ Get(statusDoc.records[k].id) = id}

LastOf(S) == CHOOSE k \in S : \A j \in S : j <= k

\* the live status is that of status record r
CarriesRecord(liveStatus, r) ==
    /\ liveStatus.id = Get(r.id)
    /\ liveStatus.vacantSpaces = (IF r.vacantSpaces = Null THEN 0 ELSE Get(r.vacantSpaces))
    /\ liveStatus.occupiedSpaces = (IF r.occupiedSpaces = Null THEN 0 ELSE Get(r.occupiedSpaces))
    /\ liveStatus.occupancy = (IF r.occupancy = Null THEN 0 ELSE Get(r.occupancy))
    /\ liveStatus.status = (IF r.status = Null THEN "unknown" ELSE Get(r.status))

JoinedOn(f, matching) ==
    /\ f.liveStatus # Null <=> matching # {}
    /\ matching # {} =>
           CarriesRecord(Get(f.liveStatus), statusDoc.records[LastOf(matching)])

\* C7 as stated: a facility carries liveStatus iff some status record has
\* an id equal to the facility's id, and then it is the last such record
C7_JoinOnEqualId ==
    NdwAnswered =>
        \A j \in DOMAIN ndwResponse.facilities :
            LET f == ndwResponse.facilities[j]
            IN  JoinedOn(f, StatusRecordsWithId(f.id))

\* C7, amended: a facility carries liveStatus iff some status record has a
\* non-empty id equal to the facility's id; the value is the last such
\* record in document order; without such a record liveStatus is absent
C7_JoinOnEqualNonEmptyId ==
    NdwAnswered =>
        \A j \in DOMAIN ndwResponse.facilities :
            LET f == ndwResponse.facilities[j]
            IN  JoinedOn(f, IF f.id = "" THEN {} ELSE StatusRecordsWithId(f.id))

\* two status records of one id with different content, the facility of
\* that id carries the second, and another facility carries none
C7_Witness ==
    /\ NdwAnswered
    /\ Len(statusDoc.records) = 2
    /\ statusDoc.records[1].id = Some("P1") /\ statusDoc.records[2].id = Some("P1")
    /\ statusDoc.records[1].vacantSpaces = Some(3)
    /\ statusDoc.records[2].vacantSpaces = Null
    /\ Len(ndwResponse.facilities) = 2
    /\ ndwResponse.facilities[1].id = "P1"
    /\ ndwResponse.facilities[1].liveStatus # Null
    /\ Get(ndwResponse.facilities[1].liveStatus).vacantSpaces = 0
    /\ ndwResponse.facilities[2].id = "P2"
    /\ ndwResponse.facilities[2].liveStatus = Null

\* C8: the response's facilities are the parkingRecord elements of the
\* static table, one for one and in order; totalFacilities is their number;
\* status records add none
C8_FacilitiesAreTheTableRecords ==
    NdwAnswered =>
        /\ Len(ndwResponse.facilities) = Len(tableDoc.records)
        /\ ndwResponse.totalFacilities = Len(tableDoc.records)
        /\ \A j \in DOMAIN ndwResponse.facilities :
               ndwResponse.facilities[j].id =
                   (IF tableDoc.records[j].id = Null THEN ""
                    ELSE Get(tableDoc.records[j].id))

\* a status record whose id no static record has, next to a static record
\* without live status
C8_Witness ==
    /\ NdwAnswered
    /\ Len(tableDoc.records) = 2
    /\ \E k \in DOMAIN statusDoc.records :
           /\ statusDoc.records[k].id = Some("P2")
           /\ \A j \in DOMAIN tableDoc.records : tableDoc.records[j].id # Some("P2")
    /\ \E j \in DOMAIN ndwResponse.facilities :
           ndwResponse.facilities[j].liveStatus = Null
    /\ \E j \in DOMAIN ndwResponse.facilities :
           ndwResponse.facilities[j].liveStatus # Null

\* C9: when the status feed cannot be fetched and the static table can,
\* the response still holds the static facilities, without live status
C9_StatusFailureKeepsStaticFacilities ==
    (ndwResponse.status # 0 /\ tableDoc.fetch = "ok" /\ statusDoc.fetch # "ok") =>
        /\ NdwAnswered
        /\ Len(ndwResponse.facilities) = Len(tableDoc.records)
        /\ \A j \in DOMAIN ndwResponse.facilities :
               ndwResponse.facilities[j].liveStatus = Null

----------------------------------------------------------------------------
(* Properties of GET /api/eu-parking                                       *)

\* what source k contributes: its records when fetch and parse succeed
Contribution(k) ==
    IF euUpstream[k].fetch = "ok" THEN euUpstream[k].records ELSE <<>>

\* the facilities of the response that come from source k
FromSource(k) ==
    SelectSeq(euResponse.facilities,
              LAMBDA f : f.country = EU_DATA_SOURCES[k].country)

\* what the first n sources contribute together
RECURSIVE ContributionCount(_)
ContributionCount(n) ==
    IF n = 0 THEN 0 ELSE Len(Contribution(n)) + ContributionCount(n - 1)

\* C10: whatever fails for one source, the response is a success holding
\* exactly the facilities of the sources that did not fail, each source's
\* facilities unchanged and in order; a failed source contributes none
C10_FailedSourceLeavesOthers ==
    euResponse.status # 0 =>
        /\ euResponse.status = 200
        /\ Len(euResponse.facilities) = ContributionCount(Len(EU_DATA_SOURCES))
        /\ euResponse.totalFacilities = Len(euResponse.facilities)
        /\ \A k \in DOMAIN EU_DATA_SOURCES :
               /\ Len(FromSource(k)) = Len(Contribution(k))
               /\ \A j \in DOMAIN FromSource(k) :
                      /\ FromSource(k)[j].id[3] =
                             (IF Contribution(k)[j].id = Null THEN ""
                              ELSE Get(Contribution(k)[j].id))
                      /\ FromSource(k)[j].location.latitude =
                             (IF Contribution(k)[j].latitude = Null THEN 0
                              ELSE Get(Contribution(k)[j].latitude))

\* one source fails, the other delivers two facilities
C10_Witness ==
    /\ euResponse.status = 200
    /\ euUpstream[1].fetch \in {"rejected", "malformed", "notOk"}
    /\ euUpstream[2].fetch = "ok"
    /\ Len(euUpstream[2].records) = 2
    /\ Len(euResponse.facilities) = 2

----------------------------------------------------------------------------
(* Properties of the map component                                         *)

\* C11: once two or more consecutive refreshes of the live feed have failed,
\* no facility of the NDW layer is drawn with a live status: whatever live
\* status the component still holds was obtained before those failures.
C11_StaleLiveStatusNotPresented ==
    missed >= 2 =>
        \A i \in DOMAIN NdwLayer(map) : NdwLayer(map)[i].liveStatus = Null

\* C12: a refreshing flag that is set is cleared again, whatever becomes of
\* the fetch: success, failure, or a remote that never answers.
C12_RefreshingFlagsClear ==
    /\ map.isRefreshingNdw ~> ~map.isRefreshingNdw
    /\ map.isRefreshingZenodo ~> ~map.isRefreshingZenodo

\* C13: for each source, after a fetch has failed a new fetch of the same
\* source is issued, timers and answered fetches taking their course and the
\* user doing nothing.
C13_FailedFetchIsRetried ==
    /\ awaitingRetry["osm"] ~> ~awaitingRetry["osm"]
    /\ awaitingRetry["ndw"] ~> ~awaitingRetry["ndw"]
    /\ awaitingRetry["zenodo"] ~> ~awaitingRetry["zenodo"]

----------------------------------------------------------------------------
(* Properties of concurrent queries                                        *)

\* the store holds one facility per feature of the snapshot, in its order,
\* each with the facility_type its flags give
CompleteStore(store) ==
    /\ Len(store) = Len(snapshot.features)
    /\ \A k \in DOMAIN store :
           /\ store[k].name = snapshot.features[k].name
           /\ store[k].latitude = snapshot.features[k].latitude
           /\ store[k].longitude = snapshot.features[k].longitude
           /\ store[k].facility_type =
                  facility_type(Get(snapshot.features[k].classification))

\* C14: under every interleaving of invocations with the load, the store is
\* absent or complete, and what a query has read from it is complete, every
\* facility carrying its derived facility_type.
C14_NoPartialStoreObserved ==
    /\ cachedData # Null => CompleteStore(Get(cachedData))
    /\ \A i \in DOMAIN calls :
           calls[i].pc = "loaded" => CompleteStore(calls[i].data)

\* one invocation has its data while another is still reading the file
C14_Witness ==
    \E i, j \in DOMAIN calls :
        /\ calls[i].pc = "loaded"
        /\ calls[j].pc = "readFile"
        /\ Len(calls[i].data) = MaxStoreFeatures

\* C15: after any sequence of queries the cached list is the list that was
\* stored when the snapshot was loaded: same facilities, same order.
C15_QueriesLeaveStoreUnchanged ==
    firstLoad # Null => cachedData = firstLoad

\* a query has answered with fewer facilities than the store holds
C15_Witness ==
    /\ firstLoad # Null
    /\ response.status = 200
    /\ Len(response.facilities) < Len(Get(cachedData))
    /\ Len(response.facilities) > 0

\* the invocations that are reading the snapshot file
Loading == {i \in DOMAIN calls : calls[i].pc = "readFile"}

\* C27: at most one load-and-transform pass is in progress at any time, also
\* when several requests arrive while the store is empty.
C27_OneLoadAtATime == Cardinality(Loading) <= 1

\* C28: once the store is loaded and no load is in progress, no step replaces
\* the store or starts reading the snapshot file; a load that fails leaves
\* the store empty and answers 500; and while the store is empty an arriving
\* request reads the snapshot file.
C28_LoadedOnceRetriedOnFailure ==
    [][/\ (cachedData # Null /\ Loading = {}) =>
              (cachedData' = cachedData /\ Loading' = {})
       /\ \A i \in DOMAIN calls :
              /\ (i \in Loading /\ calls'[i].pc = "idle") =>
                     (cachedData = Null /\ cachedData' = Null
                          /\ response' = ErrorResponse)
              /\ (calls[i].pc = "idle" /\ calls'[i].pc # "idle"
                      /\ cachedData = Null) =>
                     i \in Loading']_vars

\* the store is loaded, a query has been answered from it and another is
\* about to be, with no load in progress
C28_Witness ==
    /\ cachedData # Null
    /\ Loading = {}
    /\ response.status = 200
    /\ \E i \in DOMAIN calls : calls[i].pc = "loaded"

----------------------------------------------------------------------------
(* Properties of GET /api/zenodo                                           *)

ZenodoAnswered == zenodoResponse # NoResponse /\ csvText.fetch = "ok"

CsvLines == split(trim(csvText.text), "\n")

CsvIndex == ColumnIndices(parseHeaders(CsvLines[1]))

\* the data rows, numbered as the parser numbers them
DataRows == 1..(Len(CsvLines) - 1)

FieldsOfRow(i) == scanFields(trim(CsvLines[i + 1]), <<>>, <<>>, FALSE)

\* both coordinates of the row parse as numbers
Geolocated(i) == ~InvalidCoordinates(FieldsOfRow(i), CsvIndex)

\* the row has a field for every column of the header
FullRow(i) == Len(FieldsOfRow(i)) >= Len(parseHeaders(CsvLines[1]))

\* the facilities of the answer; none when the route answers with an error
ZenodoOutput ==
    IF zenodoResponse.status = 200 THEN zenodoResponse.facilities ELSE <<>>

\* the number of the data row a facility was made from, the end of its id
RowOfFacility(f) == f.id[Len(f.id)]

Yields(i) ==
    \E k \in DOMAIN ZenodoOutput : RowOfFacility(ZenodoOutput[k]) = ToString(i)

\* C16: a malformed row does not make the CSV parse raise or lose other
\* rows: when the text was fetched the answer is not an error, and it holds
\* the facility of every well-formed row before and after the malformed one.
C16_MalformedRowIsSkipped ==
    ZenodoAnswered =>
        /\ zenodoResponse.status = 200
        /\ \A i \in DataRows : FullRow(i) /\ Geolocated(i) => Yields(i)

\* C17: no facility is made from a row whose latitude or longitude does not
\* parse, and every row with parseable coordinates after such a row yields
\* its facility, the facilities standing in the order of their rows.
C17_UnparseableRowDoesNotStopLaterRows ==
    ZenodoAnswered =>
        /\ \A i \in DataRows : ~Geolocated(i) => ~Yields(i)
        /\ \A i, j \in DataRows :
               ~Geolocated(i) /\ i < j /\ Geolocated(j) => Yields(j)
        /\ \A k, l \in DOMAIN ZenodoOutput :
               k < l => \E i, j \in DataRows :
                           /\ i < j
                           /\ RowOfFacility(ZenodoOutput[k]) = ToString(i)
                           /\ RowOfFacility(ZenodoOutput[l]) = ToString(j)

\* the positions of a line that hold the character
PositionsOf(line, char) == {j \in DOMAIN line : line[j] = char}

\* the semicolons of a line that have an even number of double quotes before
\* them: those not between an opening and a closing quote
SemicolonsOutsideQuotes(line) ==
    {j \in PositionsOf(line, ";") :
        Cardinality({q \in PositionsOf(line, Quote) : q < j}) % 2 = 0}

\* the number of semicolons in the fields of a row
RECURSIVE SemicolonsIn(_)
SemicolonsIn(fields) ==
    IF fields = <<>> THEN 0
    ELSE Cardinality(PositionsOf(Head(fields), ";")) + SemicolonsIn(Tail(fields))

\* C30: every data line splits into one field more than it has semicolons
\* outside double quotes; the semicolons between quotes stay in the fields,
\* and no field holds a double quote.
C30_FieldsSplitOutsideQuotes ==
    ZenodoAnswered =>
        \A i \in DataRows :
            LET line   == trim(CsvLines[i + 1])
                fields == FieldsOfRow(i)
            IN  line # <<>> =>
                    /\ Len(fields) = Cardinality(SemicolonsOutsideQuotes(line)) + 1
                    /\ SemicolonsIn(fields) =
                           Cardinality(PositionsOf(line, ";"))
                               - Cardinality(SemicolonsOutsideQuotes(line))
                    /\ \A k \in DOMAIN fields : PositionsOf(fields[k], Quote) = {}

\* a line with a semicolon between quotes was split into three fields, the
\* last of them holding the semicolon
C30_Witness ==
    /\ ZenodoAnswered
    /\ \E i \in DataRows :
           /\ Cardinality(PositionsOf(CsvLines[i + 1], ";")) = 3
           /\ Len(FieldsOfRow(i)) = 3
           /\ FieldsOfRow(i)[3] = <<"D", ";", "E">>

----------------------------------------------------------------------------
(* Properties of the static table adapter                                  *)

\* C18: every facility the static adapter emits lies in the Netherlands, in
\* whole degrees latitude 51..53 and longitude 4..7; none is emitted for a
\* record without coordinates, so none lies at 0,0.
C18_OnlyGeolocatedFacilities ==
    NdwAnswered =>
        \A j \in DOMAIN ndwResponse.facilities :
            /\ ndwResponse.facilities[j].location.latitude \in 51..53
            /\ ndwResponse.facilities[j].location.longitude \in 4..7

\* the spaces of the groups with one vehicle type, or of all groups
RECURSIVE SpacesOf(_, _)
SpacesOf(groups, types) ==
    IF groups = <<>> THEN 0
    ELSE LET g == groups[Len(groups)]
         IN  SpacesOf(SubSeq(groups, 1, Len(groups) - 1), types)
             + (IF g.vehicleType \in types /\ g.parkingNumberOfSpaces # Null
                THEN Get(g.parkingNumberOfSpaces) ELSE 0)

AnyVehicleType == {g.vehicleType : g \in GroupsOfParkingSpaces}

\* a bucket holds the sum, and is absent when the sum is zero
HoldsSum(bucket, sum) == bucket = (IF sum > 0 THEN {sum} ELSE {})

\* C20: for every parkingRecord the lorry, refrigeratedGoods and heavyHaul
\* buckets each hold the sum of parkingNumberOfSpaces over the groups with
\* that vehicle type (absent when that sum is zero), heavyHaul apart from
\* lorry, and totalSpaces is the sum over all groups.
C20_CapacityPerVehicleType ==
    NdwAnswered =>
        \A j \in DOMAIN ndwResponse.facilities :
            LET groups   == tableDoc.records[j].groupOfParkingSpaces
                capacity == ndwResponse.facilities[j].capacity
            IN  /\ HoldsSum(capacity.lorrySpaces, SpacesOf(groups, {{"lorry"}}))
                /\ HoldsSum(capacity.refrigeratedSpaces,
                            SpacesOf(groups, {{"refrigeratedGoods"}}))
                /\ HoldsSum(capacity.heavyHaulSpaces,
                            SpacesOf(groups, {{"heavyHaul"}}))
                /\ capacity.totalSpaces = SpacesOf(groups, AnyVehicleType)

\* the record NL-12_421 with the groups {lorry: 30} and {heavyHaul: 18}
C20_Witness ==
    /\ NdwAnswered
    /\ tableDoc.records[1].groupOfParkingSpaces =
           <<[parkingNumberOfSpaces |-> {30}, vehicleType |-> {"lorry"}],
             [parkingNumberOfSpaces |-> {18}, vehicleType |-> {"heavyHaul"}]>>
    /\ ndwResponse.facilities[1].id = "NL-12_421"
    /\ ndwResponse.facilities[1].capacity.lorrySpaces = {30}
    /\ ndwResponse.facilities[1].capacity.heavyHaulSpaces = {18}
    /\ ndwResponse.facilities[1].capacity.refrigeratedSpaces = {}
    /\ ndwResponse.facilities[1].capacity.totalSpaces = 48

\* C21: the spaces of a group whose vehicle type is none of lorry,
\* refrigeratedGoods and heavyHaul, or that has no vehicle type, are counted
\* in the lorry bucket of its record: the lorry bucket holds the sum over
\* every group that is not refrigeratedGoods or heavyHaul.
C21_UnrecognizedTypesCountAsLorry ==
    NdwAnswered =>
        \A j \in DOMAIN ndwResponse.facilities :
            HoldsSum(ndwResponse.facilities[j].capacity.lorrySpaces,
                     SpacesOf(tableDoc.records[j].groupOfParkingSpaces,
                              AnyVehicleType
                                  \ {{"refrigeratedGoods"}, {"heavyHaul"}}))

\* C22: in every facility of the static adapter a capacity entry that is
\* present is a positive count; totalSpaces is never 0.
C22_PresentCapacityIsPositive ==
    NdwAnswered =>
        \A j \in DOMAIN ndwResponse.facilities :
            LET capacity == ndwResponse.facilities[j].capacity
            IN  /\ capacity.totalSpaces > 0
                /\ \A n \in capacity.lorrySpaces \cup capacity.refrigeratedSpaces
                               \cup capacity.heavyHaulSpaces : n > 0

\* the live statuses served with the facilities
LiveStatuses ==
    IF NdwAnswered
    THEN UNION {ndwResponse.facilities[j].liveStatus :
                    j \in DOMAIN ndwResponse.facilities}
    ELSE {}

\* C23: every live status the dynamic adapter produces has non-negative
\* vacant and occupied space counts, an occupancy within 0..100 and a status
\* that is spacesAvailable, full or unknown.
C23_LiveStatusIsWellFormed ==
    \A liveStatus \in LiveStatuses :
        /\ liveStatus.vacantSpaces \in Nat
        /\ liveStatus.occupiedSpaces \in Nat
        /\ liveStatus.occupancy \in 0..100
        /\ liveStatus.status \in {"spacesAvailable", "full", "unknown"}

----------------------------------------------------------------------------
(* Properties of the confidence score                                      *)

\* the kinds of data the facility has
Completeness(f) ==
    {k \in {"name", "capacity", "polygon", "amenity", "operator", "hgv"} :
        CASE k = "name"     -> f.name \notin {Null, Some("")}
          [] k = "capacity" -> f.capacity # Null
          [] k = "polygon"  -> f.polygon
          [] k = "amenity"  -> f.amenities # {}
          [] k = "operator" -> f.operator \notin {Null, Some("")}
          [] k = "hgv"      -> f.hgv}

\* the bonuses of a set of kinds, in hundredths: 0.10 for the name, 0.15 for
\* capacity, 0.10 for a polygon, 0.05 each for amenity, operator and HGV
RECURSIVE Bonuses(_)
Bonuses(kinds) ==
    IF kinds = {} THEN 0
    ELSE LET k == CHOOSE x \in kinds : TRUE
         IN  (CASE k \in {"name", "polygon"} -> 10
                [] k = "capacity"            -> 15
                [] OTHER                     -> 5)
             + Bonuses(kinds \ {k})

----------------------------------------------------------------------------
(* Properties of merging source records                                    *)

\* C25: a source record fed twice yields one facility: when the static table
\* carries the same parkingRecord (same id, same content) more than once,
\* exactly one facility with that id is served.
C25_SameRecordServedOnce ==
    NdwAnswered =>
        \A i, j \in DOMAIN tableDoc.records :
            LET r == tableDoc.records[i]
            IN  (r = tableDoc.records[j] /\ ~Falsy(r.id)) =>
                    Cardinality({k \in DOMAIN ndwResponse.facilities :
                                    ndwResponse.facilities[k].id = Get(r.id)}) = 1

----------------------------------------------------------------------------
(* Properties of overlapping /api/facilities requests                      *)

\* no timer is waiting and every request has been answered
Quiescent == ~timeoutId /\ inFlight = <<>>

\* C26: once no change is waiting to be fetched and every /api/facilities
\* request has completed, the facilities and statistics shown are those
\* returned for the most recently issued request, if it succeeded.
C26_LatestRequestIsShown ==
    (Quiescent /\ latest # Null /\ Get(latest).outcome = "ok") =>
        /\ map.data = Some(FacilitiesResult(Get(latest).bounds).facilities)
        /\ stats = Some(FacilitiesResult(Get(latest).bounds).stats)

----------------------------------------------------------------------------
(* Properties of the derived facility type                                 *)

\* truck_parking if is_truck_parking, else service_area if is_service_area,
\* else rest_area
TypeByPrecedence(flags) ==
    CASE flags.is_truck_parking -> "truck_parking"
      [] ~flags.is_truck_parking /\ flags.is_service_area -> "service_area"
      [] OTHER -> "rest_area"

FlagsOf(k) == Get(snapshot.features[k].classification)

\* C29: every facility the route serves, and every feature either component
\* has transformed, carries the facility_type its flags give by precedence,
\* so the three derivations agree on every facility.
C29_TypeByFixedPrecedence ==
    /\ response.status = 200 =>
           /\ DOMAIN response.facilities = DOMAIN snapshot.features
           /\ \A k \in DOMAIN response.facilities :
                  response.facilities[k].facility_type = TypeByPrecedence(FlagsOf(k))
    /\ \A loaded \in geojsonData :
           \A k \in DOMAIN loaded.data :
               loaded.data[k].properties.facility_type = TypeByPrecedence(FlagsOf(k))
    /\ \A loaded \in enrichedData :
           \A k \in DOMAIN loaded.data :
               loaded.data[k].facility_type = TypeByPrecedence(FlagsOf(k))

\* the route and both components have derived the types of a facility
\* without any flag and of one flagged as truck parking and service area
C29_Witness ==
    /\ response.status = 200
    /\ geojsonData # Null
    /\ enrichedData # Null
    /\ Len(snapshot.features) = 2
    /\ FlagsOf(1) = Classification(FALSE, FALSE, FALSE)
    /\ FlagsOf(2) = Classification(TRUE, TRUE, FALSE)
    /\ response.facilities[1].facility_type = "rest_area"
    /\ Get(geojsonData).data[2].properties.facility_type = "truck_parking"
    /\ Get(enrichedData).data[2].facility_type = "truck_parking"

====
